---- MODULE Spec2Model ----
(***************************************************************************)
(* The image-acquisition scripts of bgthai-image-scrapp as state machines: *)
(*   index.js          walk the remote tree of a language, then download   *)
(*                     every image found (both languages, "en" then "th"); *)
(*   unnamed/part_000  read two ID list files, download every identifier;  *)
(*   unnamed/part_001  read two ID list files, move <id>.jpg into the      *)
(*                     language folders (the Arranger).                    *)
(* Strings the code inspects (file names, file contents, response bodies)  *)
(* are sequences of one-character strings.  A local path is the sequence   *)
(* of its components below __dirname.                                      *)
(***************************************************************************)
EXTENDS Integers, Sequences, FiniteSets, TLC

VARIABLES
    script,      \* which script runs: "index", "ids" or "arrange"
    pc,          \* position of main / downloadImagesForLanguage
    lang,        \* the language being processed
    repo,        \* the remote tree of each language (quotes/<lang>)
    wstack,      \* call stack of getImageFilesFromRepo (last = innermost)
    inflight,    \* network requests issued and not yet answered
    failed,      \* repo paths whose listing call has failed
    imageFiles,  \* index.js: per language, the records the walk returned
    idFile,      \* per language: the content of the ID list file, or Missing
    fs0,         \* history: the local filesystem when the run started
    imageIds,    \* part_000, part_001: enImageIds and thImageIds
    fs,          \* the local filesystem below the directory of the script
    upstream,    \* what the image endpoint answers, per identifier asked so far
    next,        \* position in the list of the language being processed
    attempts,    \* history: the items handed to a download or a move, in order
    hist,        \* history: each finished download with the filesystem it left
    console      \* what has been logged, in order

vars == <<script, pc, lang, repo, wstack, inflight, failed, imageFiles, idFile, fs0,
          imageIds, fs, upstream, next, attempts, hist, console>>

----------------------------------------------------------------------------
(* Bounds *)

\* nodes of a remote tree below its root
MaxNodes == 4

----------------------------------------------------------------------------
(* Characters and strings *)

\* String.prototype.toLowerCase on the letters that occur in the model
Lower(c) ==
    CASE c = "J" -> "j" [] c = "P" -> "p" [] c = "E" -> "e" [] c = "G" -> "g"
      [] c = "N" -> "n" [] OTHER -> c

LowerStr(s) == [k \in 1..Len(s) |-> Lower(s[k])]

EndsWith(s, suf) ==
    /\ Len(s) >= Len(suf)
    /\ SubSeq(s, Len(s) - Len(suf) + 1, Len(s)) = suf

\* the alternatives of /\.(jpg|jpeg|png)$/i
ImageExts == { <<".", "j", "p", "g">>, <<".", "j", "p", "e", "g">>, <<".", "p", "n", "g">> }

\* /\.(jpg|jpeg|png)$/i.test(name)
IsImageName(name) == \E e \in ImageExts : EndsWith(LowerStr(name), e)

\* index of the last "." of name, 0 when there is none
LastDot(name) ==
    LET dots == { k \in 1..Len(name) : name[k] = "." }
    IN  IF dots = {} THEN 0 ELSE CHOOSE k \in dots : \A j \in dots : j <= k

\* path.extname(name) for a name without separators
ExtName(name) ==
    LET d == LastDot(name)
    IN  IF d <= 1 \/ name = <<".", ".">> THEN <<>> ELSE SubSeq(name, d, Len(name))

\* path.basename(name, ext) for a name without separators
BaseName(name, ext) ==
    IF ext # <<>> /\ ext # name /\ EndsWith(name, ext)
    THEN SubSeq(name, 1, Len(name) - Len(ext))
    ELSE name

----------------------------------------------------------------------------
(* The remote tree: nodes 1..n below the root 0, listed in index order *)

Letters == <<"a", "b", "c", "d", "e", "f">>

Exts == { <<".", "j", "p", "g">>, <<".", "J", "P", "E", "G">>, <<".", "p", "n", "g">>,
          <<".", "t", "x", "t">> }

\* what a node can be: a directory, a file with some extension, or an entry of
\* another type (a symlink) whose name looks like an image
NodeKinds ==
    {[type |-> "dir", ext |-> <<>>]} \cup [type : {"file"}, ext : Exts]
        \cup {[type |-> "symlink", ext |-> <<".", "j", "p", "g">>]}

EntryName(t, k) ==
    IF t.node[k].type = "dir" THEN <<"d", t.base[k]>> ELSE <<t.base[k]>> \o t.node[k].ext

\* one element of the JSON array of the contents API; path names the node
Entry(t, k) == [type |-> t.node[k].type, name |-> EntryName(t, k), path |-> k]

RECURSIVE EntriesFrom(_, _, _)
EntriesFrom(t, d, k) ==
    IF k > t.n THEN <<>>
    ELSE (IF t.parent[k] = d THEN <<Entry(t, k)>> ELSE <<>>) \o EntriesFrom(t, d, k + 1)

\* the body of GET .../contents/<path of node d>
Listing(t, d) == EntriesFrom(t, d, 1)

\* the trees of n entries, the k-th entry named after the k-th letter
TreesOfSize(n) ==
    { t \in [n : {n}, parent : [1..n -> 0..n], node : [1..n -> NodeKinds],
             base : {[k \in 1..n |-> Letters[k]]}] :
        \A k \in 1..n :
            /\ t.parent[k] < k
            /\ t.parent[k] # 0 => t.node[t.parent[k]].type = "dir" }

Trees == UNION { TreesOfSize(n) : n \in 0..MaxNodes }

EmptyTree == [n |-> 0, parent |-> <<>>, node |-> <<>>, base |-> <<>>]

Langs == {"en", "th"}

----------------------------------------------------------------------------
(* The response of the image endpoint: the pattern and the base64 decoding *)

Quote == "\""

\* src="data:image\/   (the literal head of the pattern)
PatternHead ==
    <<"s", "r", "c", "=", Quote, "d", "a", "t", "a", ":", "i", "m", "a", "g", "e", "/">>

\* ;base64,   (the literal between the two character classes)
PatternMid == <<";", "b", "a", "s", "e", "6", "4", ",">>

HasAt(s, k, lit) ==
    /\ k + Len(lit) - 1 <= Len(s)
    /\ SubSeq(s, k, k + Len(lit) - 1) = lit

\* the first index >= k holding character c, Len(s) + 1 when there is none
RECURSIVE FirstAtOrAfter(_, _, _)
FirstAtOrAfter(s, k, c) ==
    IF k > Len(s) THEN Len(s) + 1
    ELSE IF s[k] = c THEN k
    ELSE FirstAtOrAfter(s, k + 1, c)

NoMatch == [found |-> FALSE, group |-> <<>>]

\* /src="data:image\/[^;]+;base64,([^"]+)"/ anchored at index k.  [^;]+ can only
\* end at the first ";" and [^"]+ only at the first quote, so there is one way
\* to match.
MatchAt(s, k) ==
    IF ~HasAt(s, k, PatternHead) THEN NoMatch
    ELSE LET sub == k + Len(PatternHead)
             semi == FirstAtOrAfter(s, sub, ";")
             pay == semi + Len(PatternMid)
             quo == FirstAtOrAfter(s, pay, Quote)
         IN  IF /\ semi > sub
                /\ HasAt(s, semi, PatternMid)
                /\ quo > pay
                /\ quo <= Len(s)
             THEN [found |-> TRUE, group |-> SubSeq(s, pay, quo - 1)]
             ELSE NoMatch

\* the leftmost match at or after index k
RECURSIVE MatchFrom(_, _)
MatchFrom(s, k) ==
    IF k > Len(s) THEN NoMatch
    ELSE IF s[k] = PatternHead[1] /\ MatchAt(s, k).found THEN MatchAt(s, k)
    ELSE MatchFrom(s, k + 1)

\* responseText.match(regex): the leftmost match, match[1] in group
Match(s) == MatchFrom(s, 1)

Base64Alphabet ==
    <<"A", "B", "C", "D", "E", "F", "G", "H", "I", "J", "K", "L", "M", "N", "O", "P",
      "Q", "R", "S", "T", "U", "V", "W", "X", "Y", "Z", "a", "b", "c", "d", "e", "f",
      "g", "h", "i", "j", "k", "l", "m", "n", "o", "p", "q", "r", "s", "t", "u", "v",
      "w", "x", "y", "z", "0", "1", "2", "3", "4", "5", "6", "7", "8", "9", "+", "/">>

IsBase64Char(c) == \E v \in 1..64 : Base64Alphabet[v] = c

Base64Value(c) == (CHOOSE v \in 1..64 : Base64Alphabet[v] = c) - 1

\* the 6-bit values of the input up to the first "=", other characters skipped
RECURSIVE Sextets(_, _)
Sextets(s, k) ==
    IF k > Len(s) \/ s[k] = "=" THEN <<>>
    ELSE (IF IsBase64Char(s[k]) THEN <<Base64Value(s[k])>> ELSE <<>>) \o Sextets(s, k + 1)

\* the bytes of a run of sextets: 4 give 3 bytes, a tail of 3 gives 2, of 2 gives 1
RECURSIVE BytesOf(_)
BytesOf(v) ==
    IF Len(v) >= 4
    THEN <<v[1] * 4 + v[2] \div 16,
           (v[2] % 16) * 16 + v[3] \div 4,
           (v[3] % 4) * 64 + v[4]>> \o BytesOf(SubSeq(v, 5, Len(v)))
    ELSE IF Len(v) = 3 THEN <<v[1] * 4 + v[2] \div 16, (v[2] % 16) * 16 + v[3] \div 4>>
    ELSE IF Len(v) = 2 THEN <<v[1] * 4 + v[2] \div 16>>
    ELSE <<>>

\* Buffer.from(base64Data, 'base64')
Base64Decode(s) == BytesOf(Sextets(s, 1))

\* response bodies the endpoint may send
BodyPng ==
    <<"<">> \o PatternHead \o <<"p", "n", "g">> \o PatternMid \o <<"Q", "U", "J", "D">>
        \o <<Quote, ">">>
BodyJpeg ==
    PatternHead \o <<"j", "p", "e", "g">> \o PatternMid \o <<"Q", "U", "I", "=">> \o <<Quote>>
BodyNoImage == <<"<", "p", ">">>
BodyEmptyPayload == PatternHead \o <<"p", "n", "g">> \o PatternMid \o <<Quote>>

Bodies == {BodyPng, BodyJpeg, BodyNoImage}

\* the request rejects (timeout, DNS failure, non-2xx status)
NetworkError == <<"E", "R", "R">>

Responses == Bodies \cup {NetworkError}

----------------------------------------------------------------------------
(* The local filesystem: a function from the paths that exist to what is there. *)
(* The directory of the script, <<>>, always exists.                          *)

DirNode == [kind |-> "dir"]

EmptyFs == [p \in {} |-> DirNode]

FileNode(data) == [kind |-> "file", data |-> data]

Exists(fsys, p) == p = <<>> \/ p \in DOMAIN fsys

IsDir(fsys, p) == p = <<>> \/ (p \in DOMAIN fsys /\ fsys[p].kind = "dir")

IsFile(fsys, p) == p \in DOMAIN fsys /\ fsys[p].kind = "file"

Parent(p) == SubSeq(p, 1, Len(p) - 1)

Prefixes(p) == { SubSeq(p, 1, k) : k \in 1..Len(p) }

Put(fsys, p, node) == [q \in DOMAIN fsys \cup {p} |-> IF q = p THEN node ELSE fsys[q]]

\* a mkdir that throws when the folder is already there
Mkdir_notRecursive(fsys, p) ==
    IF IsDir(fsys, p) \/ \E q \in Prefixes(p) : IsFile(fsys, q)
    THEN [ok |-> FALSE, fs |-> fsys]
    ELSE [ok |-> TRUE,
          fs |-> [q \in DOMAIN fsys \cup Prefixes(p) |->
                     IF q \in DOMAIN fsys THEN fsys[q] ELSE DirNode]]

\* mkdir with { recursive: true }: creates what is missing, accepts directories
\* that exist, throws when a component is a regular file
Mkdir(fsys, p) ==
    IF \E q \in Prefixes(p) : IsFile(fsys, q)
    THEN [ok |-> FALSE, fs |-> fsys]
    ELSE [ok |-> TRUE,
          fs |-> [q \in DOMAIN fsys \cup Prefixes(p) |->
                     IF q \in DOMAIN fsys THEN fsys[q] ELSE DirNode]]

\* a write that keeps what the file held and adds to it
WriteFile_appends(fsys, p, data) ==
    IF ~IsDir(fsys, Parent(p)) \/ IsDir(fsys, p)
    THEN [ok |-> FALSE, fs |-> fsys]
    ELSE [ok |-> TRUE,
          fs |-> Put(fsys, p, FileNode((IF IsFile(fsys, p) THEN fsys[p].data ELSE <<>>) \o data))]

\* fs.writeFileSync(path, buffer): creates or replaces the file; throws when the
\* folder is missing or no directory, or when the path is a directory
WriteFile(fsys, p, data) ==
    IF ~IsDir(fsys, Parent(p)) \/ IsDir(fsys, p)
    THEN [ok |-> FALSE, fs |-> fsys]
    ELSE [ok |-> TRUE, fs |-> Put(fsys, p, FileNode(data))]

\* a move done as copy
Rename_copies(fsys, from, to) ==
    IF ~IsFile(fsys, from) \/ ~IsDir(fsys, Parent(to)) \/ IsDir(fsys, to)
    THEN [ok |-> FALSE, fs |-> fsys]
    ELSE [ok |-> TRUE, fs |-> Put(fsys, to, fsys[from])]

\* fs.rename(from, to) of a regular file: one step that takes the file from one
\* name to the other, replacing a file at the new name; throws when the source is
\* gone, the target folder is missing, or the target is a directory
Rename(fsys, from, to) ==
    IF ~IsFile(fsys, from) \/ ~IsDir(fsys, Parent(to)) \/ IsDir(fsys, to)
    THEN [ok |-> FALSE, fs |-> fsys]
    ELSE [ok |-> TRUE,
          fs |-> [q \in (DOMAIN fsys \ {from}) \cup {to} |->
                     IF q = to THEN fsys[from] ELSE fsys[q]]]

JpgSuffix == <<".", "j", "p", "g">>

\* `${id}.jpg`
JpgName(id) == id \o JpgSuffix

----------------------------------------------------------------------------
(* readImageIds: unnamed/part_000:62-71 (downloader), part_001:13-22 (Arranger) *)

LF == "\n"
CR == "\r"

\* what String.prototype.trim removes, among the characters of the model
WhiteSpace == {" ", "\t", CR, LF}

\* content.split(/\r?\n/): scan from index k with the piece cur collected so far;
\* a CR directly before an LF belongs to the separator
RECURSIVE SplitFrom(_, _, _)
SplitFrom(s, k, cur) ==
    IF k > Len(s) THEN <<cur>>
    ELSE IF s[k] = LF THEN <<cur>> \o SplitFrom(s, k + 1, <<>>)
    ELSE IF s[k] = CR /\ k < Len(s) /\ s[k + 1] = LF THEN <<cur>> \o SplitFrom(s, k + 2, <<>>)
    ELSE SplitFrom(s, k + 1, Append(cur, s[k]))

SplitLines(s) == SplitFrom(s, 1, <<>>)

\* id.trim()
Trim(s) ==
    LET keep == { k \in 1..Len(s) : s[k] \notin WhiteSpace }
    IN  IF keep = {} THEN <<>>
        ELSE SubSeq(s, CHOOSE k \in keep : \A j \in keep : k <= j,
                       CHOOSE k \in keep : \A j \in keep : j <= k)

\* Array.prototype.filter

NotBlank(line) == Trim(line) # <<>>

NotEmpty(line) == line # <<>>

\* an ID list file that cannot be read (ENOENT, EACCES)
Missing == <<"ENOENT">>

\* a readImageIds whose read error reaches the caller
readImageIds_throws(content) ==
    IF content = Missing
    THEN [threw |-> TRUE, ids |-> <<>>, logged |-> <<>>]
    ELSE [threw |-> FALSE, ids |-> SelectSeq(SplitLines(content), NotBlank), logged |-> <<>>]

\* part_000:62-71: split, keep the lines that are not blank (as they are); a read
\* error is logged and gives []
readImageIds(content) ==
    IF content = Missing
    THEN [threw |-> FALSE, ids |-> <<>>, logged |-> <<[msg |-> "Error reading image IDs"]>>]
    ELSE [threw |-> FALSE, ids |-> SelectSeq(SplitLines(content), NotBlank), logged |-> <<>>]

\* part_001:13-22: split, trim every line, keep the non-empty ones; a read error
\* is logged and gives []
readImageIdsArranger(content) ==
    IF content = Missing
    THEN [threw |-> FALSE, ids |-> <<>>, logged |-> <<[msg |-> "Error reading file"]>>]
    ELSE [threw |-> FALSE,
          ids |-> SelectSeq([k \in 1..Len(SplitLines(content)) |-> Trim(SplitLines(content)[k])],
                         NotEmpty),
          logged |-> <<>>]

----------------------------------------------------------------------------
(* getImageFilesFromRepo, index.js:43-67 *)

\* a call of getImageFilesFromRepo(repoPath, relativePath): the function runs up
\* to its first await, so the frame starts with its listing request outstanding
Frame(repoPath, relativePath) ==
    [repoPath |-> repoPath, relativePath |-> relativePath, at |-> "get",
     data |-> <<>>, i |-> 1, files |-> <<>>]

ListRequest(l, repoPath) == [kind |-> "list", lang |-> l, what |-> repoPath]

\* a join that forgets the directories above
PathJoin_dropsParents(relativePath, name) == <<name>>

\* path.join(relativePath, item.name): relativePath is kept as its components
PathJoin(relativePath, name) == Append(relativePath, name)

\* what the walk does not touch
local == <<idFile, fs0, imageIds, fs, upstream, next, attempts, hist>>

Top == wstack[Len(wstack)]

SetTop(f) == [wstack EXCEPT ![Len(wstack)] = f]

\* "return files": the caller's await resumes with the value
WalkerReturns(files) ==
    IF Len(wstack) = 1
    THEN /\ wstack' = <<>>
         /\ imageFiles' = [imageFiles EXCEPT ![lang] = files]
         /\ pc' = "download"
         /\ next' = 1
    ELSE LET caller == wstack[Len(wstack) - 1]
         IN  /\ wstack' = Append(SubSeq(wstack, 1, Len(wstack) - 2),
                                  [caller EXCEPT !.files = caller.files \o files,
                                                 !.i = caller.i + 1,
                                                 !.at = "loop"])
             /\ UNCHANGED <<imageFiles, pc, next>>

\* no try/catch around the listing call: the rejection unwinds every caller up
\* to main().catch
CatchListingError_rethrows ==
    /\ wstack' = <<>>
    /\ pc' = "crashed"
    /\ UNCHANGED <<imageFiles, next>>

\* lines 63-66: the catch block logs, then line 66 returns files
CatchListingError == WalkerReturns(Top.files)

\* line 48 resolves: the loop starts over the entries
ListingOk ==
    /\ pc = "walk" /\ wstack # <<>> /\ Top.at = "get"
    /\ ListRequest(lang, Top.repoPath) \in inflight
    /\ inflight' = inflight \ {ListRequest(lang, Top.repoPath)}
    /\ wstack' = SetTop([Top EXCEPT !.at = "loop", !.data = Listing(repo[lang], Top.repoPath)])
    /\ UNCHANGED <<script, pc, lang, repo, failed, imageFiles, console>>
    /\ UNCHANGED local

\* line 48 rejects: lines 63-66 log and return what was collected (nothing)
ListingFails ==
    /\ pc = "walk" /\ wstack # <<>> /\ Top.at = "get"
    /\ ListRequest(lang, Top.repoPath) \in inflight
    /\ inflight' = inflight \ {ListRequest(lang, Top.repoPath)}
    /\ failed' = failed \cup {<<lang, Top.repoPath>>}
    /\ console' = Append(console, [msg |-> "Error fetching contents", lang |-> lang,
                                    what |-> Top.repoPath])
    /\ CatchListingError
    /\ UNCHANGED <<script, lang, repo, idFile, fs0, imageIds, fs, upstream, attempts, hist>>

\* lines 50-62: one iteration of the loop over data
WalkItem ==
    /\ pc = "walk" /\ wstack # <<>> /\ Top.at = "loop" /\ Top.i <= Len(Top.data)
    /\ LET item == Top.data[Top.i]
       IN  IF item.type = "dir"
           THEN /\ wstack' = Append(SetTop([Top EXCEPT !.at = "sub"]),
                                    Frame(item.path, PathJoin(Top.relativePath, item.name)))
                /\ inflight' = inflight \cup {ListRequest(lang, item.path)}
           ELSE IF item.type = "file" /\ IsImageName(item.name)
           THEN /\ wstack' = SetTop([Top EXCEPT
                       !.files = Append(Top.files,
                                        [id |-> BaseName(item.name, ExtName(item.name)),
                                         relativePath |-> Top.relativePath]),
                       !.i = Top.i + 1])
                /\ UNCHANGED inflight
           ELSE /\ wstack' = SetTop([Top EXCEPT !.i = Top.i + 1])
                /\ UNCHANGED inflight
    /\ UNCHANGED <<script, pc, lang, repo, failed, imageFiles, console>>
    /\ UNCHANGED local

\* line 66 after the loop has run out
WalkDone ==
    /\ pc = "walk" /\ wstack # <<>> /\ Top.at = "loop" /\ Top.i > Len(Top.data)
    /\ WalkerReturns(Top.files)
    /\ UNCHANGED <<script, lang, repo, inflight, failed, console>>
    /\ UNCHANGED <<idFile, fs0, imageIds, fs, upstream, attempts, hist>>

Walker == ListingOk \/ ListingFails \/ WalkItem \/ WalkDone

----------------------------------------------------------------------------
(* getImageFilesFromRepo on its own: one call on the root of a tree *)

InitWalk ==
    /\ script = "index"
    /\ pc = "walk"
    /\ lang = "en"
    /\ \E t \in Trees : repo = [l \in Langs |-> IF l = "en" THEN t ELSE EmptyTree]
    /\ wstack = <<Frame(0, <<>>)>>
    /\ inflight = {ListRequest("en", 0)}
    /\ failed = {}
    /\ imageFiles = [l \in Langs |-> <<>>]
    /\ idFile = [l \in Langs |-> Missing]
    /\ imageIds = [l \in Langs |-> <<>>]
    /\ fs = EmptyFs
    /\ fs0 = fs
    /\ upstream = <<>>
    /\ next = 1
    /\ attempts = <<>>
    /\ hist = <<>>
    /\ console = <<>>

NextWalk == ListingOk \/ ListingFails \/ WalkItem \/ WalkDone

SpecWalk == InitWalk /\ [][NextWalk]_vars

----------------------------------------------------------------------------
(* downloadImage, index.js:79-115, and downloadImageById, part_000:15-54 *)

Images == <<"images">>

LangDir(l) == <<l>>

Log(msg, about) == [msg |-> msg, about |-> about]

\* a downloadImage without its try/catch: what mkdirSync or writeFileSync throws
\* reaches the caller
downloadImage_noCatch(fsys, l, fileObj, body) ==
    LET match == Match(body)
        destFolder == <<Images, LangDir(l)>> \o fileObj.relativePath
        made == IF Exists(fsys, destFolder) THEN [ok |-> TRUE, fs |-> fsys]
                ELSE Mkdir(fsys, destFolder)
        wrote == WriteFile(made.fs, Append(destFolder, JpgName(fileObj.id)),
                           Base64Decode(match.group))
    IN  IF ~match.found
        THEN [threw |-> FALSE, fs |-> fsys, logged |-> Log("Could not extract", fileObj.id)]
        ELSE IF made.ok /\ wrote.ok
        THEN [threw |-> FALSE, fs |-> wrote.fs, logged |-> Log("saved", fileObj.id)]
        ELSE [threw |-> TRUE, fs |-> made.fs, logged |-> Log("uncaught", fileObj.id)]

\* index.js:87-114, from the response text on: match, decode, make the folder
\* unless something is there, write, log; anything thrown is caught and logged
downloadImage(fsys, l, fileObj, body) ==
    LET match == Match(body)
        imageBuffer == Base64Decode(match.group)
        destFolder == <<Images, LangDir(l)>> \o fileObj.relativePath
        made == IF Exists(fsys, destFolder) THEN [ok |-> TRUE, fs |-> fsys]
                ELSE Mkdir(fsys, destFolder)
        outputFilePath == Append(destFolder, JpgName(fileObj.id))
        wrote == WriteFile(made.fs, outputFilePath, imageBuffer)
    IN  IF ~match.found
        THEN [threw |-> FALSE, fs |-> fsys, logged |-> Log("Could not extract", fileObj.id)]
        ELSE IF ~made.ok
        THEN [threw |-> FALSE, fs |-> fsys, logged |-> Log("Error downloading", fileObj.id)]
        ELSE IF ~wrote.ok
        THEN [threw |-> FALSE, fs |-> made.fs, logged |-> Log("Error downloading", fileObj.id)]
        ELSE [threw |-> FALSE, fs |-> wrote.fs, logged |-> Log("saved", fileObj.id)]

\* a downloadImageById that makes the folder before it looks for the image
downloadImageById_mkdirFirst(fsys, l, imageId, body) ==
    LET match == Match(body)
        langDir == <<Images, LangDir(l)>>
        made == IF Exists(fsys, langDir) THEN [ok |-> TRUE, fs |-> fsys]
                ELSE Mkdir(fsys, langDir)
        wrote == WriteFile(made.fs, Append(langDir, JpgName(imageId)),
                           Base64Decode(match.group))
    IN  IF ~made.ok
        THEN [threw |-> FALSE, fs |-> fsys, logged |-> Log("Error downloading", imageId)]
        ELSE IF ~match.found
        THEN [threw |-> FALSE, fs |-> made.fs, logged |-> Log("Could not extract", imageId)]
        ELSE IF ~wrote.ok
        THEN [threw |-> FALSE, fs |-> made.fs, logged |-> Log("Error downloading", imageId)]
        ELSE [threw |-> FALSE, fs |-> wrote.fs, logged |-> Log("saved", imageId)]

\* part_000:22-53, from the response text on: the same steps with the folder
\* images/<lang>
downloadImageById(fsys, l, imageId, body) ==
    LET match == Match(body)
        imageBuffer == Base64Decode(match.group)
        langDir == <<Images, LangDir(l)>>
        made == IF Exists(fsys, langDir) THEN [ok |-> TRUE, fs |-> fsys]
                ELSE Mkdir(fsys, langDir)
        outputFilePath == Append(langDir, JpgName(imageId))
        wrote == WriteFile(made.fs, outputFilePath, imageBuffer)
    IN  IF ~match.found
        THEN [threw |-> FALSE, fs |-> fsys, logged |-> Log("Could not extract", imageId)]
        ELSE IF ~made.ok
        THEN [threw |-> FALSE, fs |-> fsys, logged |-> Log("Error downloading", imageId)]
        ELSE IF ~wrote.ok
        THEN [threw |-> FALSE, fs |-> made.fs, logged |-> Log("Error downloading", imageId)]
        ELSE [threw |-> FALSE, fs |-> wrote.fs, logged |-> Log("saved", imageId)]

\* the list the loop of the language runs over: imageFiles in index.js, the
\* identifiers of enImageIds / thImageIds in part_000 (no relative path there)
Batch(l) ==
    IF script = "index" THEN imageFiles[l]
    ELSE [k \in 1..Len(imageIds[l]) |-> [id |-> imageIds[l][k], relativePath |-> <<>>]]

FetchRequest(l, k) == [kind |-> "fetch", lang |-> l, what |-> k]

\* the loop goes on without waiting for the download it started
AfterDownloadCall_notAwaited == "download"

\* index.js:137, part_000:91,98: "await downloadImage(...)" suspends the loop
AfterDownloadCall == "await"

\* index.js:135-137, part_000:89-91,96-98: the next iteration logs and calls the
\* download, which issues its request (index.js:86, part_000:21)
DownloadStart ==
    /\ script \in {"index", "ids"} /\ pc = "download"
    /\ next <= Len(Batch(lang))
    /\ attempts' = Append(attempts, [lang |-> lang, item |-> Batch(lang)[next]])
    /\ inflight' = inflight \cup {FetchRequest(lang, next)}
    /\ next' = next + 1
    /\ pc' = AfterDownloadCall
    /\ console' = Append(console, Log("Downloading", Batch(lang)[next].id))
    /\ UNCHANGED <<script, lang, repo, wstack, failed, imageFiles, idFile, fs0, imageIds, fs,
                   upstream, hist>>

\* the endpoint answers the same request the same way
Answers(id, r) == id \in DOMAIN upstream => upstream[id] = r

Remember(id, r) == [q \in DOMAIN upstream \cup {id} |-> IF q = id THEN r ELSE upstream[q]]

\* the download returned: the loop, if it waits for it, goes on
Resumed == IF pc = "await" THEN "download" ELSE pc

\* index.js:86 / part_000:21 rejects: the catch logs and the download returns
FetchRejects ==
    \E req \in inflight :
        /\ req.kind = "fetch"
        /\ LET item == Batch(req.lang)[req.what]
           IN  /\ Answers(item.id, NetworkError)
               /\ upstream' = Remember(item.id, NetworkError)
               /\ inflight' = inflight \ {req}
               /\ console' = Append(console, Log("Error downloading", item.id))
               /\ hist' = Append(hist, [lang |-> req.lang, item |-> item, saved |-> FALSE,
                                        fs |-> fs])
               /\ pc' = Resumed
        /\ UNCHANGED <<script, lang, repo, wstack, failed, imageFiles, idFile, fs0, imageIds, fs,
                       next, attempts>>

\* index.js:86 / part_000:21 resolves with a body: the rest of the download runs
\* to its end in the same turn
FetchResolves ==
    \E req \in inflight, body \in Bodies :
        /\ req.kind = "fetch"
        /\ LET item == Batch(req.lang)[req.what]
               done == IF script = "index" THEN downloadImage(fs, req.lang, item, body)
                       ELSE downloadImageById(fs, req.lang, item.id, body)
           IN  /\ Answers(item.id, body)
               /\ upstream' = Remember(item.id, body)
               /\ inflight' = inflight \ {req}
               /\ fs' = done.fs
               /\ console' = Append(console, done.logged)
               /\ hist' = Append(hist, [lang |-> req.lang, item |-> item,
                                        saved |-> done.logged.msg = "saved", fs |-> done.fs])
               /\ pc' = IF done.threw THEN "crashed" ELSE Resumed
        /\ UNCHANGED <<script, lang, repo, wstack, failed, imageFiles, idFile, fs0, imageIds,
                       next, attempts>>

\* index.js:146-148: the loop of "en" has run out, downloadImagesForLanguage('th')
\* starts its walk (lines 129-131)
NextLanguageIndex ==
    /\ script = "index" /\ pc = "download" /\ lang = "en"
    /\ next > Len(Batch(lang))
    /\ lang' = "th"
    /\ pc' = "walk"
    /\ wstack' = <<Frame(0, <<>>)>>
    /\ inflight' = inflight \cup {ListRequest("th", 0)}
    /\ UNCHANGED <<script, repo, failed, imageFiles, idFile, fs0, imageIds, fs, upstream, next,
                   attempts, hist, console>>

\* part_000:94-96: the loop over enImageIds has run out, the one over thImageIds
\* starts
NextLanguageIds ==
    /\ script = "ids" /\ pc = "download" /\ lang = "en"
    /\ next > Len(Batch(lang))
    /\ lang' = "th"
    /\ next' = 1
    /\ UNCHANGED <<script, pc, repo, wstack, inflight, failed, imageFiles, idFile, fs0, imageIds,
                   fs, upstream, attempts, hist, console>>

\* index.js:148, part_000:101: both loops have run out
DownloadsCompleted ==
    /\ script \in {"index", "ids"} /\ pc = "download" /\ lang = "th"
    /\ next > Len(Batch(lang))
    /\ pc' = "done"
    /\ console' = Append(console, Log("All downloads completed.", <<>>))
    /\ UNCHANGED <<script, lang, repo, wstack, inflight, failed, imageFiles, idFile, fs0,
                   imageIds, fs, upstream, next, attempts, hist>>

\* part_000:78-85: both ID lists are read before anything is downloaded
ReadIdLists ==
    /\ script = "ids" /\ pc = "read"
    /\ LET en == readImageIds(idFile["en"])
           th == readImageIds(idFile["th"])
       IN  IF en.threw \/ th.threw
           THEN /\ pc' = "crashed"
                /\ UNCHANGED <<imageIds, console>>
           ELSE /\ pc' = "download"
                /\ imageIds' = [l \in Langs |-> IF l = "en" THEN en.ids ELSE th.ids]
                /\ console' = console \o en.logged \o th.logged
                                \o <<Log("Found", <<Len(en.ids), Len(th.ids)>>)>>
    /\ UNCHANGED <<script, lang, repo, wstack, inflight, failed, imageFiles, idFile, fs0, fs,
                   upstream, next, attempts, hist>>

----------------------------------------------------------------------------
(* The Arranger, part_001:32-91 *)

\* part_001:76-84: both ID lists are read before anything is moved
ReadIdListsArranger ==
    /\ script = "arrange" /\ pc = "read"
    /\ LET en == readImageIdsArranger(idFile["en"])
           th == readImageIdsArranger(idFile["th"])
       IN  IF en.threw \/ th.threw
           THEN /\ pc' = "crashed"
                /\ UNCHANGED <<imageIds, console>>
           ELSE /\ pc' = "arrange"
                /\ imageIds' = [l \in Langs |-> IF l = "en" THEN en.ids ELSE th.ids]
                /\ console' = console \o en.logged \o th.logged
                                \o <<Log("Found", <<Len(en.ids), Len(th.ids)>>)>>
    /\ UNCHANGED <<script, lang, repo, wstack, inflight, failed, imageFiles, idFile, fs0, fs,
                   upstream, next, attempts, hist>>

\* part_001:54
TargetFolder(l) == <<Images, LangDir(l)>>

\* part_001:58-59
SourcePath(id) == <<Images, JpgName(id)>>

\* part_001:37
DestPath(l, id) == Append(TargetFolder(l), JpgName(id))

\* part_001:56-62,65-67: the next identifier; fs.access decides between the move
\* and the skip
ArrangeAccess ==
    /\ script = "arrange" /\ pc = "arrange"
    /\ next <= Len(imageIds[lang])
    /\ attempts' = Append(attempts, [lang |-> lang,
                                     item |-> [id |-> imageIds[lang][next],
                                               relativePath |-> <<>>]])
    /\ IF Exists(fs, SourcePath(imageIds[lang][next]))
       THEN /\ pc' = "mkdir"
            /\ UNCHANGED <<next, console>>
       ELSE /\ pc' = "arrange"
            /\ next' = next + 1
            /\ console' = Append(console, Log("does not exist", imageIds[lang][next]))
    /\ UNCHANGED <<script, lang, repo, wstack, inflight, failed, imageFiles, idFile, fs0,
                   imageIds, fs, upstream, hist>>

\* part_001:35,40-42: the language folder is made; a failure is logged and ends
\* the move
ArrangeMkdir ==
    /\ script = "arrange" /\ pc = "mkdir"
    /\ LET made == Mkdir(fs, TargetFolder(lang))
       IN  IF made.ok
           THEN /\ fs' = made.fs
                /\ pc' = "rename"
                /\ UNCHANGED <<next, console>>
           ELSE /\ pc' = "arrange"
                /\ next' = next + 1
                /\ console' = Append(console, Log("Error moving file", imageIds[lang][next]))
                /\ UNCHANGED fs
    /\ UNCHANGED <<script, lang, repo, wstack, inflight, failed, imageFiles, idFile, fs0,
                   imageIds, upstream, attempts, hist>>

\* part_001:37-42: the rename; success and failure are both logged
ArrangeRename ==
    /\ script = "arrange" /\ pc = "rename"
    /\ LET id == imageIds[lang][next]
           moved == Rename(fs, SourcePath(id), DestPath(lang, id))
       IN  /\ fs' = moved.fs
           /\ console' = Append(console,
                  Log(IF moved.ok THEN "Moved" ELSE "Error moving file", id))
    /\ pc' = "arrange"
    /\ next' = next + 1
    /\ UNCHANGED <<script, lang, repo, wstack, inflight, failed, imageFiles, idFile, fs0,
                   imageIds, upstream, attempts, hist>>

\* part_001:87-88: arrangeImages for "en" has returned, the one for "th" starts
ArrangeNextLanguage ==
    /\ script = "arrange" /\ pc = "arrange" /\ lang = "en"
    /\ next > Len(imageIds[lang])
    /\ lang' = "th"
    /\ next' = 1
    /\ UNCHANGED <<script, pc, repo, wstack, inflight, failed, imageFiles, idFile, fs0, imageIds,
                   fs, upstream, attempts, hist, console>>

\* part_001:88-90
ArrangeCompleted ==
    /\ script = "arrange" /\ pc = "arrange" /\ lang = "th"
    /\ next > Len(imageIds[lang])
    /\ pc' = "done"
    /\ console' = Append(console, Log("Image arrangement completed.", <<>>))
    /\ UNCHANGED <<script, lang, repo, wstack, inflight, failed, imageFiles, idFile, fs0,
                   imageIds, fs, upstream, next, attempts, hist>>

----------------------------------------------------------------------------
(* A run of one of the scripts *)

\* lines of an ID list file
MaxLines == 2

FileLines == { <<"a">>, <<"b", " ">> }

RECURSIVE JoinLines(_)
JoinLines(ls) ==
    IF ls = <<>> THEN <<>>
    ELSE IF Len(ls) = 1 THEN ls[1]
    ELSE ls[1] \o <<LF>> \o JoinLines(Tail(ls))

\* the ID list files: unreadable, or up to MaxLines lines joined by LF
IdFiles ==
    {Missing} \cup { JoinLines(ls) : ls \in UNION { [1..k -> FileLines] : k \in 0..MaxLines } }

FsOf(entries) ==
    [p \in { e[1] : e \in entries } |-> (CHOOSE e \in entries : e[1] = p)[2]]

IdA == <<"a">>
IdB == <<"b">>

\* what the downloaders may find below the directory of the script
DownloadFsInits ==
    { EmptyFs,
      FsOf({ << <<Images>>, DirNode >>, << <<Images, LangDir("en")>>, DirNode >>,
             << <<Images, LangDir("en"), JpgName(IdA)>>, FileNode(<<0>>) >> }),
      FsOf({ << <<Images>>, FileNode(<<0>>) >> }),
      FsOf({ << <<Images>>, DirNode >>, << <<Images, LangDir("en")>>, FileNode(<<0>>) >> }),
      FsOf({ << <<Images>>, DirNode >>, << <<Images, LangDir("en")>>, DirNode >>,
             << <<Images, LangDir("en"), JpgName(IdA)>>, DirNode >> }) }

\* what the Arranger may find: any of a.jpg, b.jpg in images/, the folder of "en"
\* absent, empty, holding a file or a directory named a.jpg, or being a file
\* itself; the folder of "th" absent or being a file
ArrangeFsInits ==
    { FsOf({ << <<Images>>, DirNode >> }
           \cup { << SourcePath(id), FileNode(id) >> : id \in present }
           \cup en \cup th) :
        present \in SUBSET {IdA, IdB},
        en \in { {},
                 { << TargetFolder("en"), DirNode >> },
                 { << TargetFolder("en"), DirNode >>,
                   << DestPath("en", IdA), FileNode(<<"o", "l", "d">>) >> },
                 { << TargetFolder("en"), DirNode >>, << DestPath("en", IdA), DirNode >> },
                 { << TargetFolder("en"), FileNode(<<"x">>) >> } },
        th \in { {}, { << TargetFolder("th"), FileNode(<<"x">>) >> } } }

Tree(parent, node, base) ==
    [n |-> Len(parent), parent |-> parent, node |-> node, base |-> base]

FileKind(ext) == [type |-> "file", ext |-> ext]

\* the remote trees of a run of index.js: two images of one name, an image in a
\* folder beside a text file; nothing, or one image
Repos ==
    [ en : { Tree(<<0, 0>>, <<FileKind(<<".", "j", "p", "g">>), FileKind(<<".", "p", "n", "g">>)>>,
                  <<"a", "a">>),
             Tree(<<0, 1, 0>>, <<[type |-> "dir", ext |-> <<>>],
                                 FileKind(<<".", "J", "P", "E", "G">>),
                                 FileKind(<<".", "t", "x", "t">>)>>,
                  <<"a", "a", "b">>) },
      th : { EmptyTree, Tree(<<0>>, <<FileKind(<<".", "j", "p", "g">>)>>, <<"b">>) } ]

InitIndex ==
    /\ script = "index"
    /\ pc = "walk"
    /\ repo \in Repos
    /\ wstack = <<Frame(0, <<>>)>>
    /\ inflight = {ListRequest("en", 0)}
    /\ idFile = [l \in Langs |-> Missing]
    /\ fs \in DownloadFsInits

InitIds ==
    /\ script = "ids"
    /\ pc = "read"
    /\ repo = [l \in Langs |-> EmptyTree]
    /\ wstack = <<>>
    /\ inflight = {}
    /\ idFile \in [Langs -> IdFiles]
    /\ fs \in DownloadFsInits

InitArrange ==
    /\ script = "arrange"
    /\ pc = "read"
    /\ repo = [l \in Langs |-> EmptyTree]
    /\ wstack = <<>>
    /\ inflight = {}
    /\ idFile \in [Langs -> IdFiles]
    /\ fs \in ArrangeFsInits

Init ==
    /\ InitIndex \/ InitIds \/ InitArrange
    /\ fs0 = fs
    /\ lang = "en"
    /\ failed = {}
    /\ imageFiles = [l \in Langs |-> <<>>]
    /\ imageIds = [l \in Langs |-> <<>>]
    /\ upstream = <<>>
    /\ next = 1
    /\ attempts = <<>>
    /\ hist = <<>>
    /\ console = <<>>

Next ==
    \/ ListingOk \/ ListingFails \/ WalkItem \/ WalkDone
    \/ DownloadStart \/ FetchRejects \/ FetchResolves
    \/ NextLanguageIndex \/ NextLanguageIds \/ DownloadsCompleted
    \/ ReadIdLists
    \/ ReadIdListsArranger \/ ArrangeAccess \/ ArrangeMkdir \/ ArrangeRename
    \/ ArrangeNextLanguage \/ ArrangeCompleted

Spec == Init /\ [][Next]_vars

----------------------------------------------------------------------------
(* readImageIds on its own: one ID list file of any content *)

\* characters of an ID list file
MaxLen == 4

FileChars == {"a", " ", CR, LF}

FileContents == UNION { [1..k -> FileChars] : k \in 0..MaxLen }

InitRead ==
    /\ script \in {"ids", "arrange"}
    /\ pc = "read"
    /\ lang = "en"
    /\ repo = [l \in Langs |-> EmptyTree]
    /\ wstack = <<>>
    /\ inflight = {}
    /\ failed = {}
    /\ imageFiles = [l \in Langs |-> <<>>]
    /\ \E c \in FileContents : idFile = [l \in Langs |-> IF l = "en" THEN c ELSE Missing]
    /\ imageIds = [l \in Langs |-> <<>>]
    /\ fs = EmptyFs
    /\ fs0 = fs
    /\ upstream = <<>>
    /\ next = 1
    /\ attempts = <<>>
    /\ hist = <<>>
    /\ console = <<>>

NextRead == ReadIdLists \/ ReadIdListsArranger

SpecRead == InitRead /\ [][NextRead]_vars

----------------------------------------------------------------------------
(* What the tree says, read off the parent links (not the walk) *)

\* the names of the directories from the root down to node k's directory
RECURSIVE DirNamesAbove(_, _)
DirNamesAbove(t, k) ==
    IF t.parent[k] = 0 THEN <<>>
    ELSE Append(DirNamesAbove(t, t.parent[k]), EntryName(t, t.parent[k]))

\* the directories whose listing node k depends on: its ancestors and the root
RECURSIVE DirsAbove(_, _)
DirsAbove(t, k) == IF k = 0 THEN {} ELSE {t.parent[k]} \cup DirsAbove(t, t.parent[k])

\* a file whose extension is on the allow-list, whatever its case
IsImageNode(t, k) ==
    /\ t.node[k].type = "file"
    /\ LowerStr(t.node[k].ext) \in ImageExts

ImageNodes(t) == { k \in 1..t.n : IsImageNode(t, k) }

RecordOf(t, k) == [id |-> <<t.base[k]>>, relativePath |-> DirNamesAbove(t, k)]

Positions(recs, r) == { j \in 1..Len(recs) : recs[j] = r }

ListedOk(l, t, k) == \A d \in DirsAbove(t, k) : <<l, d>> \notin failed

\* the walk of the language being processed has returned
Walked == pc = "download"

\* C1: a listing failure empties only the subtree of the directory that failed:
\* every image file whose own directory and all directories above it were listed
\* is in the returned sequence, nothing below a failed directory is, and the walk
\* returns instead of throwing.
C1_FailedListingSkipsOnlyItsSubtree ==
    /\ pc # "crashed"
    /\ Walked =>
          \A k \in ImageNodes(repo[lang]) :
              IF ListedOk(lang, repo[lang], k)
              THEN Positions(imageFiles[lang], RecordOf(repo[lang], k)) # {}
              ELSE Positions(imageFiles[lang], RecordOf(repo[lang], k)) = {}

\* C1 witness: a subdirectory failed, a sibling subdirectory was listed, and the
\* sibling's image is in the result.
C1_Witness ==
    /\ Walked
    /\ \E d, e \in 1..repo[lang].n, k \in ImageNodes(repo[lang]) :
          /\ d # e
          /\ repo[lang].parent[d] = repo[lang].parent[e]
          /\ <<lang, d>> \in failed
          /\ repo[lang].parent[k] = e
          /\ ListedOk(lang, repo[lang], k)
          /\ Positions(imageFiles[lang], RecordOf(repo[lang], k)) # {}

\* C3: when every listing call succeeds the walk returns exactly one record per
\* allow-listed file, carrying the names of the directories above the file, and
\* nothing else.
C3_OneRecordPerImageFile ==
    (Walked /\ failed = {}) =>
        /\ Len(imageFiles[lang]) = Cardinality(ImageNodes(repo[lang]))
        /\ \A k \in ImageNodes(repo[lang]) :
              Cardinality(Positions(imageFiles[lang], RecordOf(repo[lang], k))) = 1

\* C3 witness: a complete walk of a tree with an image two directories down and
\* an entry that is neither a directory nor an image.
C3_Witness ==
    /\ Walked /\ failed = {}
    /\ \E k \in ImageNodes(repo[lang]) : Len(DirNamesAbove(repo[lang], k)) = 2
    /\ \E k \in 1..repo[lang].n :
          /\ repo[lang].node[k].type # "dir"
          /\ k \notin ImageNodes(repo[lang])
    /\ Len(imageFiles[lang]) = 1

----------------------------------------------------------------------------
(* The download batches *)

\* the script did not end in main().catch
RunsOn == pc # "crashed"

Downloader == script \in {"index", "ids"}

\* the list of a language as the sequence of attempts it asks for
Asked(l) == [k \in 1..Len(Batch(l)) |-> [lang |-> l, item |-> Batch(l)[k]]]

\* the download of hist[k] got an image out of the response and failed to store it
FailedToStore(k) ==
    /\ ~hist[k].saved
    /\ upstream[hist[k].item.id] # NetworkError
    /\ Match(upstream[hist[k].item.id]).found

\* the items the loops have got to: all of "en" once "th" has begun, and the
\* items of the current language before position next
AskedSoFar ==
    IF lang = "en" THEN SubSeq(Asked("en"), 1, next - 1)
    ELSE Asked("en") \o SubSeq(Asked("th"), 1, next - 1)

\* C2: whatever happens to an item (the request fails, the response holds no
\* image, the folder or the file cannot be written), the run goes on: at every
\* point of a batch the attempts made are exactly the items up to the loop's
\* position, once each and in list order, and when the run ends they are all of
\* the "en" list followed by all of the "th" list.
C2_EveryItemAttemptedOnceInOrder ==
    Downloader =>
        /\ RunsOn
        /\ pc \in {"download", "await", "done"} => attempts = AskedSoFar
        /\ pc = "done" => attempts = Asked("en") \o Asked("th")

\* C2 witness: a finished run in which an "en" item failed on the network, a
\* later "en" item could not be stored, and a "th" item was attempted after both.
C2_Witness ==
    /\ Downloader /\ pc = "done"
    /\ \E i, j, k \in 1..Len(hist) :
          /\ i < j /\ j < k
          /\ hist[i].lang = "en" /\ upstream[hist[i].item.id] = NetworkError
          /\ hist[j].lang = "en" /\ FailedToStore(j)
          /\ hist[k].lang = "th"

FetchesInFlight == { r \in inflight : r.kind = "fetch" }

\* C4: at most one request (listing or image fetch) is outstanding, and while a
\* request is outstanding every download started before it has run to its end
\* (saved or failed).
C4_OneRequestAtATime ==
    Downloader =>
        /\ Cardinality(inflight) <= 1
        /\ \A r \in inflight :
              Len(hist) = Len(attempts) - (IF r.kind = "fetch" THEN 1 ELSE 0)

\* C4 witness: the listing request of the second language is outstanding after
\* downloads of the first, the last of which saved its image.
C4_Witness ==
    /\ script = "index"
    /\ ListRequest("th", 0) \in inflight
    /\ Len(hist) >= 2
    /\ hist[Len(hist)].saved

----------------------------------------------------------------------------
(* What an ID list file says: its lines, trimmed, the empty ones dropped *)

\* the end of the line that starts at index b: the index of its LF, or Len(s) + 1
LineEnd(s, b) ==
    LET lfs == { k \in b..Len(s) : s[k] = LF }
    IN  IF lfs = {} THEN Len(s) + 1 ELSE CHOOSE k \in lfs : \A j \in lfs : k <= j

\* the line that starts at b, without its line ending (LF or CRLF)
LineAt(s, b) ==
    LET e == LineEnd(s, b)
    IN  IF e <= Len(s) /\ e > b /\ s[e - 1] = CR THEN SubSeq(s, b, e - 2)
        ELSE SubSeq(s, b, e - 1)

RECURSIVE LinesFrom(_, _)
LinesFrom(s, b) ==
    IF LineEnd(s, b) > Len(s) THEN <<LineAt(s, b)>>
    ELSE <<LineAt(s, b)>> \o LinesFrom(s, LineEnd(s, b) + 1)

RECURSIVE StripLeft(_)
StripLeft(s) == IF s # <<>> /\ Head(s) \in WhiteSpace THEN StripLeft(Tail(s)) ELSE s

RECURSIVE StripRight(_)
StripRight(s) ==
    IF s # <<>> /\ s[Len(s)] \in WhiteSpace THEN StripRight(SubSeq(s, 1, Len(s) - 1)) ELSE s

Trimmed(lines) == [k \in 1..Len(lines) |-> StripLeft(StripRight(lines[k]))]

\* the identifiers of a readable ID list file, in file order
IdentifiersIn(content) == SelectSeq(Trimmed(LinesFrom(content, 1)), NotEmpty)

IdsOf(seq) == [k \in 1..Len(seq) |-> seq[k].item.id]

AttemptsFor(l) == SelectSeq(attempts, LAMBDA a : a.lang = l)

ListsRead == script \in {"ids", "arrange"} /\ pc # "read"

\* C9: readImageIds returns the lines of the file, split on LF or CRLF, each
\* trimmed, the empty ones dropped, in file order (downloader and Arranger).
C9_ReadIdsSplitsTrimsAndFilters ==
    ListsRead =>
        \A l \in Langs : idFile[l] # Missing => imageIds[l] = IdentifiersIn(idFile[l])

\* C9, the Arranger alone (part_001:17 trims every line)
ArrangerReadsIdentifiers ==
    (ListsRead /\ script = "arrange") =>
        \A l \in Langs : idFile[l] # Missing => imageIds[l] = IdentifiersIn(idFile[l])

\* C9, the downloader: the lines it returns are the identifiers once trimmed
DownloaderReadsUntrimmedIdentifiers ==
    (ListsRead /\ script = "ids") =>
        \A l \in Langs : idFile[l] # Missing =>
            Trimmed(imageIds[l]) = IdentifiersIn(idFile[l])

\* C10: an ID list file that cannot be read gives an empty list, nothing reaches
\* the caller, and the run handles every identifier of the other file, in order,
\* up to its last line.
C10_MissingListIsEmptyAndRunGoesOn ==
    script \in {"ids", "arrange"} =>
        /\ RunsOn
        /\ ListsRead => \A l \in Langs : idFile[l] = Missing => imageIds[l] = <<>>
        /\ pc = "done" =>
              \A l \in Langs :
                  Trimmed(IdsOf(AttemptsFor(l))) =
                      IF idFile[l] = Missing THEN <<>> ELSE IdentifiersIn(idFile[l])

\* C10 witness: the downloader has finished with the "en" file unreadable and two
\* identifiers of the "th" file attempted.
C10_Witness ==
    /\ script = "ids" /\ pc = "done"
    /\ idFile["en"] = Missing
    /\ Len(IdentifiersIn(idFile["th"])) = 2
    /\ Len(AttemptsFor("th")) = 2

----------------------------------------------------------------------------
(* Downloads: where the images end up *)

\* images/<lang>/<relativePath>/<id>.jpg
OutputPath(l, item) == Append(<<Images, LangDir(l)>> \o item.relativePath, JpgName(item.id))

\* what is at path p: nothing, a directory, or a file with its bytes
At(fsys, p) == IF p \in DOMAIN fsys THEN fsys[p] ELSE [kind |-> "nothing"]

SameDownload(j, k) == hist[j].lang = hist[k].lang /\ hist[j].item = hist[k].item

\* C7: a download repeated for the same identifier, language and relative path
\* (the endpoint answering as before) leaves the output file as the earlier one
\* left it, and run directly after it leaves the whole filesystem as it was.
C7_DownloadIsIdempotent ==
    \A j, k \in 1..Len(hist) :
        (j < k /\ SameDownload(j, k)) =>
            /\ At(hist[k].fs, OutputPath(hist[k].lang, hist[k].item))
                 = At(hist[j].fs, OutputPath(hist[j].lang, hist[j].item))
            /\ k = j + 1 => hist[k].fs = hist[j].fs

\* C7 witness: the same download ran twice in a row and saved both times, over a
\* file that was there before the run.
C7_Witness ==
    \E j \in 1..Len(hist) :
        /\ j + 1 <= Len(hist)
        /\ SameDownload(j, j + 1)
        /\ hist[j].saved /\ hist[j + 1].saved
        /\ IsFile(fs0, OutputPath(hist[j].lang, hist[j].item))
        /\ At(fs, OutputPath(hist[j].lang, hist[j].item)) #
             At(fs0, OutputPath(hist[j].lang, hist[j].item))

ErrorMessages ==
    {"Error reading image IDs", "Could not extract", "Error downloading"}

\* the run of part_000 ended and logged no failure
SuccessfulRun ==
    /\ script = "ids" /\ pc = "done"
    /\ \A k \in 1..Len(console) : console[k].msg \notin ErrorMessages

\* C8: after a successful run every identifier of an ID list file has a file at
\* images/<lang>/<id>.jpg, for the language of the list.
C8_EveryListedIdentifierHasItsFile ==
    SuccessfulRun =>
        \A l \in Langs :
            \A k \in 1..Len(IdentifiersIn(idFile[l])) :
                IsFile(fs, <<Images, LangDir(l), JpgName(IdentifiersIn(idFile[l])[k])>>)

\* C8 as the code has it: a file for every line as readImageIds returned it
EveryReadLineHasItsFile ==
    SuccessfulRun =>
        \A l \in Langs :
            \A k \in 1..Len(imageIds[l]) :
                IsFile(fs, <<Images, LangDir(l), JpgName(imageIds[l][k])>>)

----------------------------------------------------------------------------
(* The Arranger: where the files end up *)

Arranging == script = "arrange"

Listed(l, id) == \E k \in 1..Len(IdentifiersIn(idFile[l])) : IdentifiersIn(idFile[l])[k] = id

ListedIds == { id \in {IdA, IdB} : \E l \in Langs : idFile[l] # Missing /\ Listed(l, id) }

InList(l, id) == idFile[l] # Missing /\ Listed(l, id)

Logged(msg, id) == \E k \in 1..Len(console) : console[k].msg = msg /\ console[k].about = id

\* the places the Arranger knows for identifier id
PlacesOf(id) == {SourcePath(id)} \cup { DestPath(l, id) : l \in Langs }

\* the original claim C5: a listed file that is in images/ at the start is in the
\* folder of its list's language after the run and no longer in images/; for one
\* that is absent nothing changes, a skip is logged, and the run goes on.
C5_ListedFileIsMoved ==
    (Arranging /\ pc = "done") =>
        \A l \in Langs : \A id \in {IdA, IdB} :
            InList(l, id) =>
                IF Exists(fs0, SourcePath(id))
                THEN Exists(fs, DestPath(l, id)) /\ ~Exists(fs, SourcePath(id))
                ELSE /\ \A p \in PlacesOf(id) : At(fs, p) = At(fs0, p)
                     /\ Logged("does not exist", id)

\* the folder of language l can be made and the name in it is free for a file
CanMoveTo(l, id) ==
    /\ ~IsFile(fs0, <<Images>>)
    /\ ~IsFile(fs0, TargetFolder(l))
    /\ ~IsDir(fs0, DestPath(l, id))

\* the first language, "en" before "th", that lists id and can take the file
Taker(id) ==
    IF InList("en", id) /\ CanMoveTo("en", id) THEN "en"
    ELSE IF InList("th", id) /\ CanMoveTo("th", id) THEN "th"
    ELSE "none"

\* C5 amended: after the run a listed file that was in images/ at the start is in
\* the folder of the first language (en before th) that lists it and whose folder
\* creation and rename succeed, and no longer in images/; when every move of it
\* fails it is still in images/ and the error is logged; for a listed identifier
\* with no file at the start nothing changes and a skip is logged; the run never
\* raises.
C5_ListedFileIsMovedWhenTheMoveSucceeds ==
    Arranging =>
        /\ RunsOn
        /\ pc = "done" =>
              \A id \in ListedIds :
                  IF Exists(fs0, SourcePath(id))
                  THEN IF Taker(id) = "none"
                       THEN /\ At(fs, SourcePath(id)) = At(fs0, SourcePath(id))
                            /\ Logged("Error moving file", id)
                       ELSE /\ At(fs, DestPath(Taker(id), id)) = At(fs0, SourcePath(id))
                            /\ ~Exists(fs, SourcePath(id))
                            /\ Logged("Moved", id)
                  ELSE /\ \A p \in PlacesOf(id) : At(fs, p) = At(fs0, p)
                       /\ Logged("does not exist", id)

\* C5 witness: a finished run that moved a file into "th" after the move into
\* "en" had failed, and skipped an identifier that had no file.
C5_Witness ==
    /\ Arranging /\ pc = "done"
    /\ \E id \in ListedIds :
          /\ Exists(fs0, SourcePath(id))
          /\ InList("en", id) /\ Taker(id) = "th"
          /\ Exists(fs, DestPath("th", id))
    /\ \E id \in ListedIds : ~Exists(fs0, SourcePath(id)) /\ Logged("does not exist", id)

\* C6: at every point of an Arranger run each file that was in images/ at the
\* start is in exactly one of its places: images/ or one language folder.
C6_FileIsInExactlyOnePlace ==
    Arranging =>
        \A id \in {IdA, IdB} :
            IsFile(fs0, SourcePath(id)) =>
                Cardinality({ p \in PlacesOf(id) : At(fs, p) = fs0[SourcePath(id)] }) = 1

\* C6 witness: a finished run in which one rename failed and another file was
\* moved.
C6_Witness ==
    /\ Arranging /\ pc = "done"
    /\ \E id \in {IdA, IdB} :
          /\ IsFile(fs0, SourcePath(id)) /\ IsFile(fs, SourcePath(id))
          /\ IsDir(fs0, DestPath("en", id))
          /\ Logged("Error moving file", id)
    /\ \E id \in {IdA, IdB} : Logged("Moved", id)

----------------------------------------------------------------------------
(* Downloads that store nothing *)

\* the endpoint's answer to the request for identifier id has no image in it:
\* the request was rejected, or the body has no src="data:image/...;base64,..."
NothingToStore(answers, id) ==
    answers[id] = NetworkError \/ ~Match(answers[id]).found

\* C11: a download whose fetch throws, or whose response body has no base64
\* image match, leaves the local filesystem as it was: no directory and no file
\* is created, and no file is changed.
C11_FailedFetchLeavesFilesystemUnchanged ==
    [][(/\ Len(hist') = Len(hist) + 1
        /\ NothingToStore(upstream', hist'[Len(hist')].item.id))
           => fs' = fs]_vars

\* C11 witness: one download got a body without an image while a file was at its
\* output path, another had its fetch rejected while its folder did not exist;
\* the file and the missing folder are as before the run.
C11_Witness ==
    /\ \E k \in 1..Len(hist) :
          /\ hist[k].item.id \in DOMAIN upstream
          /\ upstream[hist[k].item.id] = BodyNoImage
          /\ IsFile(fs0, OutputPath(hist[k].lang, hist[k].item))
          /\ At(fs, OutputPath(hist[k].lang, hist[k].item))
               = At(fs0, OutputPath(hist[k].lang, hist[k].item))
    /\ \E k \in 1..Len(hist) :
          /\ hist[k].item.id \in DOMAIN upstream
          /\ upstream[hist[k].item.id] = NetworkError
          /\ ~Exists(fs0, Parent(OutputPath(hist[k].lang, hist[k].item)))
          /\ ~Exists(fs, Parent(OutputPath(hist[k].lang, hist[k].item)))

====
